---- MODULE Spec2Model ----
(***************************************************************************)
(* SplatViewer (src/splat-viewer.js, class at lines 20-592): the session   *)
(* state of one viewer, its load() coroutine with its two awaits, the      *)
(* memory monitor, the fallback downgrade, the DOM surfaces with their     *)
(* deferred callbacks, perspective() and the camera commands with the     *)
(* poses and 2-D transforms they set, the deviceorientation listener and   *)
(* dispose().                                                              *)
(*                                                                         *)
(* Execution is single-threaded: every action below is one turn of the     *)
(* event loop (a public call, the continuation of an await, a timer or a   *)
(* permission callback) and runs to completion.                            *)
(***************************************************************************)
EXTENDS Integers, Sequences, FiniteSets, TLC

\* ---------------------------------------------------------------- bounds
\* load() calls made on the session
MaxLoads == 2
\* dispose() calls made on the session
MaxDisposes == 1
\* enableDeviceMotion() calls made on the session
MaxEnables == 2
\* camera commands and orientation samples given to the session
MaxCommands == 2

\* ------------------------------------------------------------- constants
\* JS null for an object reference (viewer, timer id, element, handler)
None == 0
\* JS null for a URL or an identifier
NullStr == "null"
memoryThresholdMB == 512
\* JS numbers are kept in hundredths: 50 is 0.5, 5000 is 50.
Unit == 100
\* A number that is not a number: what arithmetic on an undefined sensor reading yields.
\* Every arithmetic operator below propagates it, as IEEE arithmetic does.
NaN == 999999
Mul(a, b) == IF a = NaN \/ b = NaN THEN NaN ELSE (a * b) \div Unit
Abs(a) == IF a = NaN THEN NaN ELSE IF a < 0 THEN -a ELSE a
Neg(a) == IF a = NaN THEN NaN ELSE -a
Add(a, b) == IF a = NaN \/ b = NaN THEN NaN ELSE a + b
Sub(a, b) == IF a = NaN \/ b = NaN THEN NaN ELSE a - b
\* heap sizes, in MB, that performance.memory may report at a tick
UsageSamplesMB == {0, 256, 1024}

\* The options the constructor merges over its defaults.
OptionSets ==
    [sceneId : {NullStr, "scene-id"},
     plyUrl : {NullStr, "scene.ply"},
     placeholderImage : {NullStr, "photo.jpg"},
     showLoadingBar : BOOLEAN,
     defaultPlyUrl : {"default.ply"},
     defaultPlaceholder : {"default.jpg"},
     cameraPosition : {<<0, 0, 0>>},
     cameraLookAt : {<<0, 0, 50 * Unit>>},
     enableControls : {TRUE},
     perspectiveIntensity : {Unit \div 2}]

\* What the host platform provides: performance.memory, and whether
\* DeviceOrientationEvent.requestPermission exists.
HostSets == [memory : BOOLEAN, permissionApi : BOOLEAN]

\* The descriptor a completed scene lookup returns: the scene's files, with
\* or without a preview image.
SceneDescriptors ==
    [image_url : {NullStr, "api.jpg"}, ply_url : {"api.ply"}]

\* Arguments of load(plyUrl = null)
LoadArgs == {NullStr, "other.ply"}

\* Arguments of perspective(offsetX, offsetY, offsetZ = 0): no offset, a
\* unit offset, and one beyond the unit range.
PerspectiveArgs == {<<0, 0, 0>>, <<Unit, -Unit, 0>>, <<-2 * Unit, Unit, 2 * Unit>>}
\* Arguments of pan(deltaX, deltaY), zoom(delta), rotate(deltaYaw, deltaPitch)
PanArgs == {<<-10 * Unit, 20 * Unit>>}
ZoomArgs == {-3 * Unit}
RotateArgs == {<<10 * Unit, -20 * Unit>>}
\* Arguments of setSpeed(orbit = 0.01, pan = 0.1, zoom = 1)
SpeedArgs == {<<Unit \div 50, Unit \div 5, 2 * Unit>>}
\* Arguments of setCameraPosition(x, y, z)
CameraPositionArgs == {<<Unit, 2 * Unit, -3 * Unit>>}
\* Arguments of setPerspectiveIntensity(intensity)
IntensityArgs == {Unit}
\* event.beta and event.gamma of a deviceorientation event, in degrees;
\* NullAngle is a null reading, UndefinedAngle a reading the event does not
\* carry (an event that is not a DeviceOrientationEvent)
NullAngle == -1000
UndefinedAngle == -2000
OrientationSamples ==
    {[beta |-> 0, gamma |-> 0], [beta |-> 10, gamma |-> 50],
     [beta |-> NullAngle, gamma |-> 0], [beta |-> 0, gamma |-> UndefinedAngle]}

VARIABLES
    options, host,
    isLoaded, isLoading, isFallbackMode,
    viewer, created, disposedViewers,
    _memoryCheckTimer, intervals, intervalSeq,
    _placeholder, _fallbackImage, _loadingBar,
    attached, elemSeq,
    _imageUrl, _plyUrl,
    loads, timers, timerErrors,
    _deviceMotionEnabled, _deviceMotionHandler, _hasBaseOrientation,
    listeners, listenerSeq, permPending,
    onFallbackCalls, repeatedRequest, tickedLive, disposeCalls, enableCalls,
    surfacesAtDispose, tickedHeld, released, disposed,
    camera, controls,
    _initialCameraPosition, _initialCameraLookAt,
    placeholderTransform, fallbackTransform,
    _currentPerspective, lastOffset, _orbitSpeed, _panSpeed, _zoomSpeed, _baseOrientation,
    commandCalls, lastCommand,
    scalePair

\* viewer is the renderer instance held (1 .. created are the instances ever
\* constructed, disposedViewers those dispose()d). intervals are the running
\* setInterval ids, attached the elements that are children of the container,
\* timers the deferred callbacks pending by kind, timerErrors the callbacks
\* that threw, listeners the registered deviceorientation handlers.
\* onFallbackCalls counts the points at which options.onFallback is invoked.
\* surfacesAtDispose are the elements the session had created when dispose()
\* was last called.
\* camera is the pose of this.viewer.camera and controls the rotation
\* this.viewer.controls has accumulated (NoCamera, NoControls while no
\* renderer is held);
\* placeholderTransform and fallbackTransform are the style.transform of the
\* elements _placeholder and _fallbackImage refer to. lastCommand is the
\* camera command, perspective call or sensor callback the latest step ran,
\* NoCommand when that step was something else. lastOffset is the (x, y)
\* last passed to perspective(), (0, 0) once reset() was called since.
\* scalePair holds two offsets and the scale factors line 187 gives them,
\* NoPair in a session whose scale factors are not compared.
flagVars == <<isLoaded, isLoading, isFallbackMode>>
rendererVars == <<viewer, created, disposedViewers>>
monitorVars == <<_memoryCheckTimer, intervals, intervalSeq>>
surfaceVars == <<_placeholder, _fallbackImage, _loadingBar, attached, elemSeq>>
urlVars == <<_imageUrl, _plyUrl>>
motionVars == <<_deviceMotionEnabled, _deviceMotionHandler, _hasBaseOrientation,
                listeners, listenerSeq, permPending>>
\* disposed: history variable, true from a dispose() call until the next
\* load() call.
\* released: history variable, true from a disableDeviceMotion() or dispose()
\* until the next enableDeviceMotion() call
countVars == <<onFallbackCalls, repeatedRequest, tickedLive, disposeCalls, enableCalls,
               surfacesAtDispose, tickedHeld, released, disposed>>
cameraVars == <<camera, controls>>
baseVars == <<_initialCameraPosition, _initialCameraLookAt>>
transformVars == <<placeholderTransform, fallbackTransform>>
offsetVars == <<_currentPerspective, lastOffset, _orbitSpeed, _panSpeed, _zoomSpeed,
                _baseOrientation, commandCalls>>
poseVars == <<cameraVars, baseVars, transformVars, offsetVars>>
NoCommand == "none"
vars == <<options, host, flagVars, rendererVars, monitorVars, surfaceVars, urlVars,
          loads, timers, timerErrors, motionVars, countVars, poseVars, lastCommand,
          scalePair>>

\* barRemove holds, for each pending 300 ms timer in the order they were
\* set, the number of 200 ms callbacks that were pending when it was set and
\* have not run yet: a 200 ms timer set before a 300 ms timer runs first.
NoTimers == [raf |-> 0, reveal |-> 0, barHide |-> 0, barRemove |-> <<>>]

\* The pending 300 ms timers after one 200 ms callback has run
HideRan(pending) ==
    [j \in DOMAIN pending |-> IF pending[j] > 0 THEN pending[j] - 1 ELSE 0]

\* style.transform of an element whose transform was never assigned
NoTransform == [css |-> "none"]
\* style.transform = 'scale(1.05)' of _revealSplat
RevealTransform == [css |-> "scale(1.05)"]

\* this.viewer?.camera and this.viewer?.controls while this.viewer is null
NoCamera == [position |-> <<>>, lookAt |-> <<>>]
NoControls == [left |-> 0, up |-> 0, present |-> FALSE]

\* With a sceneId, load() reads neither plyUrl nor placeholderImage: those
\* configurations are represented by the one that leaves both at null.
Configurations ==
    {o \in OptionSets :
        o.sceneId # NullStr => (o.plyUrl = NullStr /\ o.placeholderImage = NullStr)}

\* No pair of offsets under comparison
NoPair == <<>>

\* The state a constructed session is in
InitSession ==
    /\ options \in Configurations
    /\ host \in HostSets
    /\ isLoaded = FALSE /\ isLoading = FALSE /\ isFallbackMode = FALSE
    /\ viewer = None /\ created = 0 /\ disposedViewers = {}
    /\ _memoryCheckTimer = None /\ intervals = {} /\ intervalSeq = 0
    /\ _placeholder = None /\ _fallbackImage = None /\ _loadingBar = None
    /\ attached = {} /\ elemSeq = 0
    /\ _imageUrl = NullStr /\ _plyUrl = NullStr
    /\ loads = <<>>
    /\ timers = NoTimers /\ timerErrors = 0
    /\ _deviceMotionEnabled = FALSE /\ _deviceMotionHandler = None
    /\ _hasBaseOrientation = FALSE
    /\ listeners = {} /\ listenerSeq = 0 /\ permPending = 0
    /\ onFallbackCalls = 0 /\ repeatedRequest = FALSE /\ disposeCalls = 0
    /\ enableCalls = 0 /\ tickedLive = {}
    /\ surfacesAtDispose = {} /\ tickedHeld = {} /\ released = FALSE
    /\ disposed = FALSE
    /\ camera = NoCamera /\ controls = NoControls
    /\ _initialCameraPosition = options.cameraPosition
    /\ _initialCameraLookAt = options.cameraLookAt
    /\ placeholderTransform = NoTransform /\ fallbackTransform = NoTransform
    /\ _currentPerspective = [x |-> 0, y |-> 0] /\ lastOffset = <<0, 0>>
    /\ _orbitSpeed = Unit \div 100 /\ _panSpeed = Unit \div 10 /\ _zoomSpeed = Unit
    /\ _baseOrientation = [beta |-> 0, gamma |-> 0]
    /\ commandCalls = 0 /\ lastCommand = NoCommand

Init == InitSession /\ scalePair = NoPair

\* ------------------------------------------------------------ load records
\* One record per load() call: where its coroutine stands, how it settled,
\* the renderer and the surfaces it created, and whether forceFallback()
\* downgraded the session (ff) or dispose() was called (disp) while it was in
\* flight, with no dispose() or load() call since, and whether the session
\* was in Fallback when load() was called (fb); onLoad and onError count the
\* invocations of options.onLoad and options.onError this call made.
NewLoad(pc0, vid0, elems0) ==
    [pc |-> pc0, err |-> "none", vid |-> vid0, elems |-> elems0,
     ff |-> FALSE, disp |-> FALSE, fb |-> isFallbackMode,
     onLoad |-> 0, onError |-> 0]

InFlight(l) == l.pc \in {"fetch", "scene"}

ClearMarks(ls) ==
    [i \in DOMAIN ls |-> [ls[i] EXCEPT !.ff = FALSE, !.disp = FALSE]]

MarkForceFallback(ls) ==
    [i \in DOMAIN ls |-> IF InFlight(ls[i]) THEN [ls[i] EXCEPT !.ff = TRUE] ELSE ls[i]]

MarkDispose(ls) ==
    [i \in DOMAIN ls |->
        IF InFlight(ls[i]) THEN [ls[i] EXCEPT !.ff = FALSE, !.disp = TRUE] ELSE ls[i]]

\* ------------------------------------------------------- memory monitoring
\* _startMemoryMonitoring without its test of performance.memory.
StartMonitoringUnprobed ==
    /\ intervalSeq' = intervalSeq + 1
    /\ intervals' = intervals \cup {intervalSeq + 1}
    /\ _memoryCheckTimer' = intervalSeq + 1

_startMemoryMonitoring ==
    IF ~host.memory
    THEN UNCHANGED monitorVars
    ELSE /\ intervalSeq' = intervalSeq + 1
         /\ intervals' = intervals \cup {intervalSeq + 1}
         /\ _memoryCheckTimer' = intervalSeq + 1

\* clearInterval(this._memoryCheckTimer) on the set of running intervals
ClearedIntervals(ivs, timer) == IF timer # None THEN ivs \ {timer} ELSE ivs

_stopMemoryMonitoring ==
    /\ intervals' = ClearedIntervals(intervals, _memoryCheckTimer)
    /\ _memoryCheckTimer' = None
    /\ UNCHANGED intervalSeq

\* ------------------------------------------------------ the 2-D transform
\* The scale factor is kept in units of 1 / ScaleUnit, so that the 0.02 per
\* unit of offset it grows by is exact for every offset in hundredths.
ScaleUnit == Unit * Unit

\* Math.abs(v * 0.02) in units of 1 / ScaleUnit, v in hundredths
AbsFiftieth(v) == Add(Abs(v), Abs(v))

\* The transform _applyPlaceholderPerspective computes from
\* _currentPerspective and options.perspectiveIntensity.
Transform2D(p, perspectiveIntensity) ==
    LET intensity == perspectiveIntensity * 10 IN
        [css |-> "perspective(1000px)",
         translateX |-> Mul(Mul(p.x, intensity), 2 * Unit),
         translateY |-> Mul(Mul(p.y, intensity), 2 * Unit),
         rotateY |-> Mul(Mul(p.x, intensity), Unit \div 2),
         rotateX |-> Mul(Mul(Neg(p.y), intensity), Unit \div 2),
         scale |-> Add(Add(ScaleUnit, AbsFiftieth(p.x)), AbsFiftieth(p.y))]

\* The fallback transform with the tilt about the horizontal axis following
\* the offset instead of opposing it.
FallbackTransform2DUninverted(p, perspectiveIntensity) ==
    LET intensity == perspectiveIntensity * 10 IN
        [css |-> "perspective(1000px)",
         translateX |-> Mul(Mul(p.x, intensity), 2 * Unit),
         translateY |-> Mul(Mul(p.y, intensity), 2 * Unit),
         rotateY |-> Mul(Mul(p.x, intensity), Unit \div 2),
         rotateX |-> Mul(Mul(p.y, intensity), Unit \div 2),
         scale |-> Add(Add(ScaleUnit, AbsFiftieth(p.x)), AbsFiftieth(p.y))]

\* The transform _applyFallbackPerspective computes from
\* _currentPerspective and options.perspectiveIntensity.
FallbackTransform2D(p, perspectiveIntensity) ==
    LET intensity == perspectiveIntensity * 10
        translateX == Mul(Mul(p.x, intensity), 2 * Unit)
        translateY == Mul(Mul(p.y, intensity), 2 * Unit)
        rotateY == Mul(Mul(p.x, intensity), Unit \div 2)
        rotateX == Mul(Mul(Neg(p.y), intensity), Unit \div 2)
        scale == Add(Add(ScaleUnit, AbsFiftieth(p.x)), AbsFiftieth(p.y))
    IN  [css |-> "perspective(1000px)", translateX |-> translateX,
         translateY |-> translateY, rotateY |-> rotateY, rotateX |-> rotateX,
         scale |-> scale]

\* _applyPlaceholderPerspective with _currentPerspective = p
ApplyPlaceholderPerspective(p) ==
    placeholderTransform' = IF _placeholder = None
                            THEN placeholderTransform
                            ELSE Transform2D(p, options.perspectiveIntensity)

\* _applyFallbackPerspective reading a centred offset instead of p.
ApplyFallbackPerspectiveCentred(p) ==
    fallbackTransform' = IF _fallbackImage = None
                         THEN fallbackTransform
                         ELSE FallbackTransform2D([x |-> 0, y |-> 0],
                                                  options.perspectiveIntensity)

\* _applyFallbackPerspective with _currentPerspective = p
ApplyFallbackPerspective(p) ==
    fallbackTransform' = IF _fallbackImage = None
                         THEN fallbackTransform
                         ELSE FallbackTransform2D(p, options.perspectiveIntensity)

\* ---------------------------------------------------------------- fallback
ActivateFallbackBody ==
    /\ isFallbackMode' = TRUE
    /\ UNCHANGED <<isLoaded, isLoading>>
    /\ _stopMemoryMonitoring
    /\ viewer' = None
    /\ disposedViewers' = IF viewer # None THEN disposedViewers \cup {viewer}
                          ELSE disposedViewers
    /\ UNCHANGED created
    /\ timers' = IF _loadingBar # None
                 THEN [timers EXCEPT !.barRemove = Append(@, timers.barHide)]
                 ELSE timers
    /\ UNCHANGED <<_placeholder, _fallbackImage, _loadingBar, attached, elemSeq>>
    /\ camera' = NoCamera /\ controls' = NoControls
    /\ ApplyFallbackPerspective(_currentPerspective)
    /\ UNCHANGED placeholderTransform
    /\ onFallbackCalls' = onFallbackCalls + 1

\* _activateFallbackMode without its first line, the isFallbackMode guard.
ActivateFallbackUnguarded == ActivateFallbackBody

_activateFallbackMode ==
    IF isFallbackMode
    THEN UNCHANGED <<flagVars, rendererVars, monitorVars, surfaceVars, timers,
                     onFallbackCalls, cameraVars, transformVars>>
    ELSE ActivateFallbackBody

\* -------------------------------------------------------------------- load
\* The scene location as given, with no default to fall back on.
ResolvedPlyNoDefault(ply) == ply

\* Lines 311-315: the default demo scene when no scene location was given.
ResolvedPly(ply) == IF ply = NullStr THEN options.defaultPlyUrl ELSE ply

ResolvedImage(img, ply) ==
    IF ply = NullStr /\ img = NullStr THEN options.defaultPlaceholder ELSE img

\* The elements _setupPlaceholder and _setupFallbackImage create for an image,
\* in creation order: placeholder, loading bar (if shown), fallback image.
PlaceholderId == elemSeq + 1
LoadingBarId == IF options.showLoadingBar THEN elemSeq + 2 ELSE None
FallbackImageId == IF options.showLoadingBar THEN elemSeq + 3 ELSE elemSeq + 2

NewSurfaces(img) ==
    IF img = NullStr THEN {} ELSE (elemSeq + 1) .. FallbackImageId

_setupPlaceholder ==
    /\ _placeholder' = PlaceholderId
    /\ _loadingBar' = IF options.showLoadingBar THEN LoadingBarId ELSE _loadingBar

_setupFallbackImage ==
    /\ _fallbackImage' = FallbackImageId

\* Lines 317-321
SetupImages(img) ==
    IF img = NullStr
    THEN UNCHANGED <<surfaceVars, transformVars>>
    ELSE /\ _setupPlaceholder
         /\ _setupFallbackImage
         /\ attached' = attached \cup NewSurfaces(img)
         /\ elemSeq' = FallbackImageId
         /\ placeholderTransform' = NoTransform
         /\ fallbackTransform' = NoTransform

\* new GaussianSplats3D.Viewer({initialCameraPosition, initialCameraLookAt,
\* useBuiltInControls}): the camera and the controls of a new renderer.
NewCamera == [position |-> options.cameraPosition, lookAt |-> options.cameraLookAt]
NewControls == [left |-> 0, up |-> 0, present |-> options.enableControls]

\* Lines 311-339: the synchronous stretch of load() from the resolved URLs to
\* the suspension at await this.viewer.addSplatScene(...).
ResolveAndCreate(img0, ply0) ==
    /\ _plyUrl' = ResolvedPly(ply0)
    /\ _imageUrl' = ResolvedImage(img0, ply0)
    /\ SetupImages(ResolvedImage(img0, ply0))
    /\ viewer' = created + 1
    /\ created' = created + 1
    /\ UNCHANGED disposedViewers
    /\ camera' = NewCamera
    /\ controls' = NewControls

\* load(plyUrl): up to its first suspension.
Load(arg) ==
    /\ Len(loads) < MaxLoads
    /\ isLoading' = TRUE
    /\ UNCHANGED <<isLoaded, isFallbackMode>>
    /\ IF options.sceneId # NullStr
       THEN /\ loads' = Append(ClearMarks(loads), NewLoad("fetch", None, {}))
            /\ UNCHANGED <<rendererVars, surfaceVars, urlVars, cameraVars,
                           transformVars>>
       ELSE /\ ResolveAndCreate(options.placeholderImage,
                                IF arg # NullStr THEN arg ELSE options.plyUrl)
            /\ loads' = Append(ClearMarks(loads),
                   NewLoad("scene", created + 1,
                       NewSurfaces(ResolvedImage(options.placeholderImage,
                           IF arg # NullStr THEN arg ELSE options.plyUrl))))
    /\ disposed' = FALSE
    /\ UNCHANGED <<options, host, scalePair, monitorVars, timers, timerErrors, motionVars,
                   onFallbackCalls, repeatedRequest, tickedLive, disposeCalls,
                   enableCalls, surfacesAtDispose, tickedHeld, released,
                   baseVars, offsetVars>>
    /\ lastCommand' = NoCommand

\* Lines 389-393: the catch block of load().
LoadCatch(i, why) ==
    /\ isLoading' = FALSE
    /\ UNCHANGED <<isLoaded, isFallbackMode>>
    /\ loads' = [loads EXCEPT ![i].pc = "rejected", ![i].err = why,
                                ![i].onError = @ + 1]

\* _fetchSceneFromAPI returned: the response was ok and the scene completed.
FetchResolve(i, scene) ==
    /\ i \in DOMAIN loads /\ loads[i].pc = "fetch"
    /\ ResolveAndCreate(scene.image_url, scene.ply_url)
    /\ loads' = [loads EXCEPT ![i].pc = "scene", ![i].vid = created + 1,
                   ![i].elems = NewSurfaces(ResolvedImage(scene.image_url, scene.ply_url))]
    /\ UNCHANGED <<options, host, scalePair, flagVars, monitorVars, timers, timerErrors,
                   motionVars, countVars, baseVars, offsetVars>>
    /\ lastCommand' = NoCommand

\* _fetchSceneFromAPI threw: network error, response not ok, or a scene
\* status other than 'completed'.
FetchReject(i) ==
    /\ i \in DOMAIN loads /\ loads[i].pc = "fetch"
    /\ LoadCatch(i, "fetch")
    /\ UNCHANGED <<options, host, scalePair, rendererVars, monitorVars, surfaceVars, urlVars,
                   timers, timerErrors, motionVars, countVars, poseVars>>
    /\ lastCommand' = NoCommand

\* The base position taken from the configured options instead of the camera.
CapturedPositionConfigured == options.cameraPosition

\* Lines 360-366: the base position load() keeps is the position of the
\* current renderer's camera, if there is one.
CapturedPosition ==
    IF camera # NoCamera THEN camera.position ELSE _initialCameraPosition

\* Lines 351-388: the stretch of load() after addSplatScene resolved.
LoadComplete(i) ==
    /\ isLoaded' = TRUE
    /\ isLoading' = FALSE
    /\ UNCHANGED isFallbackMode
    /\ _initialCameraPosition' = CapturedPosition
    /\ UNCHANGED _initialCameraLookAt
    /\ _startMemoryMonitoring
    /\ timers' = [timers EXCEPT !.raf = @ + 1,
                     !.barHide = IF _loadingBar # None THEN @ + 1 ELSE @]
    /\ loads' = [loads EXCEPT ![i].pc = "resolved", ![i].onLoad = @ + 1]

\* The promise of addSplatScene resolved. this.viewer is read again after the
\* await: when it is null by then, this.viewer.camera throws a TypeError
\* inside the try block.
SceneResolve(i) ==
    /\ i \in DOMAIN loads /\ loads[i].pc = "scene"
    /\ IF viewer = None
       THEN /\ LoadCatch(i, "type")
            /\ UNCHANGED <<monitorVars, timers, baseVars>>
       ELSE LoadComplete(i)
    /\ UNCHANGED <<options, host, scalePair, rendererVars, surfaceVars, urlVars, timerErrors,
                   motionVars, countVars, cameraVars, transformVars, offsetVars>>
    /\ lastCommand' = NoCommand

\* The promise of addSplatScene rejected.
SceneReject(i) ==
    /\ i \in DOMAIN loads /\ loads[i].pc = "scene"
    /\ LoadCatch(i, "scene")
    /\ UNCHANGED <<options, host, scalePair, rendererVars, monitorVars, surfaceVars, urlVars,
                   timers, timerErrors, motionVars, countVars, poseVars>>
    /\ lastCommand' = NoCommand

\* ------------------------------------------------------ downgrade triggers
ForceFallback ==
    /\ repeatedRequest' = (repeatedRequest \/ isFallbackMode)
    /\ _activateFallbackMode
    /\ loads' = IF isFallbackMode THEN loads ELSE MarkForceFallback(loads)
    /\ UNCHANGED <<options, host, scalePair, urlVars, timerErrors, motionVars, tickedLive,
                   disposeCalls, enableCalls, surfacesAtDispose, tickedHeld, released, disposed,
                   baseVars, offsetVars>>
    /\ lastCommand' = NoCommand

\* memoryMB && memoryMB > this.options.memoryThresholdMB
AboveThreshold(memoryMB) == memoryMB # 0 /\ memoryMB > memoryThresholdMB

\* One firing of the setInterval callback of a running interval. tickedLive
\* records the intervals whose callback read usage above the threshold while
\* the session was Live, tickedHeld those whose callback read usage above the
\* threshold while a renderer was held.
MemoryTick(t, memoryMB) ==
    /\ t \in intervals
    /\ IF AboveThreshold(memoryMB)
       THEN /\ repeatedRequest' = (repeatedRequest \/ isFallbackMode)
            /\ tickedLive' = IF isLoaded /\ ~isFallbackMode /\ viewer # None
                             THEN tickedLive \cup {t}
                             ELSE tickedLive
            /\ tickedHeld' = IF viewer # None THEN tickedHeld \cup {t} ELSE tickedHeld
            /\ _activateFallbackMode
       ELSE UNCHANGED <<flagVars, rendererVars, monitorVars, surfaceVars, timers,
                        onFallbackCalls, repeatedRequest, tickedLive, tickedHeld,
                        cameraVars, transformVars>>
    /\ UNCHANGED <<options, host, scalePair, urlVars, loads, timerErrors, motionVars,
                   disposeCalls, enableCalls, surfacesAtDispose, released, disposed, baseVars,
                   offsetVars>>
    /\ lastCommand' = NoCommand

\* ------------------------------------------------------ deferred callbacks
\* requestAnimationFrame(() => this._revealSplat())
RevealFrame ==
    /\ timers.raf > 0
    /\ IF _placeholder = None
       THEN /\ timers' = [timers EXCEPT !.raf = @ - 1]
            /\ UNCHANGED placeholderTransform
       ELSE /\ timers' = [timers EXCEPT !.raf = @ - 1, !.reveal = @ + 1]
            /\ placeholderTransform' = RevealTransform
    /\ UNCHANGED <<options, host, scalePair, flagVars, rendererVars, monitorVars, _placeholder,
                   _fallbackImage, _loadingBar, attached, elemSeq, urlVars, loads,
                   timerErrors, motionVars, countVars, cameraVars, baseVars,
                   fallbackTransform, offsetVars>>
    /\ lastCommand' = NoCommand

\* The transitionDuration timeout of _revealSplat.
RevealTimeout ==
    /\ timers.reveal > 0
    /\ timers' = [timers EXCEPT !.reveal = @ - 1]
    /\ IF _placeholder # None /\ _placeholder \in attached
       THEN /\ attached' = attached \ {_placeholder}
            /\ _placeholder' = None
            /\ placeholderTransform' = NoTransform
       ELSE UNCHANGED <<attached, _placeholder, placeholderTransform>>
    /\ UNCHANGED <<options, host, scalePair, flagVars, rendererVars, monitorVars,
                   _fallbackImage, _loadingBar, elemSeq, urlVars, loads,
                   timerErrors, motionVars, countVars, cameraVars, baseVars,
                   fallbackTransform, offsetVars>>
    /\ lastCommand' = NoCommand

\* The 200 ms timeout of load(): this._loadingBar.style.opacity = '0' throws
\* when _loadingBar is null by then.
BarHideTimeout ==
    /\ timers.barHide > 0
    /\ IF _loadingBar = None
       THEN /\ timers' = [timers EXCEPT !.barHide = @ - 1, !.barRemove = HideRan(@)]
            /\ timerErrors' = timerErrors + 1
       ELSE /\ timers' = [timers EXCEPT !.barHide = @ - 1,
                            !.barRemove = Append(HideRan(@), timers.barHide - 1)]
            /\ UNCHANGED timerErrors
    /\ UNCHANGED <<options, host, scalePair, flagVars, rendererVars, monitorVars, _placeholder,
                   _fallbackImage, _loadingBar, attached, elemSeq, urlVars, loads,
                   motionVars, countVars, poseVars>>
    /\ lastCommand' = NoCommand

\* The 300 ms timeout that removes the loading bar (set by load() and by
\* _activateFallbackMode with the same body).
BarRemoveTimeout ==
    /\ timers.barRemove # <<>> /\ Head(timers.barRemove) = 0
    /\ timers' = [timers EXCEPT !.barRemove = Tail(@)]
    /\ IF _loadingBar # None /\ _loadingBar \in attached
       THEN /\ attached' = attached \ {_loadingBar}
            /\ _loadingBar' = None
       ELSE UNCHANGED <<attached, _loadingBar>>
    /\ UNCHANGED <<options, host, scalePair, flagVars, rendererVars, monitorVars, _placeholder,
                   _fallbackImage, elemSeq, urlVars, loads, timerErrors,
                   motionVars, countVars, poseVars>>
    /\ lastCommand' = NoCommand

\* ----------------------------------------------------------- perspective
\* The 3-D branch with the depth offset not halved.
LivePoseUnscaledDepth(base, lookAt, offsetX, offsetY, offsetZ, intensity) ==
    [position |-> <<Add(base[1], Mul(offsetX, intensity)),
                    Add(base[2], Mul(offsetY, intensity)),
                    Add(base[3], Mul(offsetZ, intensity))>>,
     lookAt |-> lookAt]

\* Lines 430-442: the camera pose perspective() sets in its 3-D branch.
LivePose(base, lookAt, offsetX, offsetY, offsetZ, intensity) ==
    [position |-> <<Add(base[1], Mul(offsetX, intensity)),
                    Add(base[2], Mul(offsetY, intensity)),
                    Add(base[3], Mul(Mul(offsetZ, intensity), Unit \div 2))>>,
     lookAt |-> lookAt]

\* perspective(offsetX, offsetY, offsetZ = 0)
PerspectiveOp(offsetX, offsetY, offsetZ) ==
    /\ _currentPerspective' = [x |-> offsetX, y |-> offsetY]
    /\ lastOffset' = <<offsetX, offsetY>>
    /\ IF isLoading /\ _placeholder # None
       THEN /\ ApplyPlaceholderPerspective([x |-> offsetX, y |-> offsetY])
            /\ UNCHANGED <<fallbackTransform, camera>>
       ELSE IF isFallbackMode
            THEN /\ ApplyFallbackPerspective([x |-> offsetX, y |-> offsetY])
                 /\ UNCHANGED <<placeholderTransform, camera>>
            ELSE /\ camera' = IF camera = NoCamera
                              THEN camera
                              ELSE LivePose(_initialCameraPosition, _initialCameraLookAt,
                                            offsetX, offsetY, offsetZ,
                                            options.perspectiveIntensity)
                 /\ UNCHANGED transformVars

Perspective(offsetX, offsetY, offsetZ) ==
    /\ commandCalls < MaxCommands
    /\ commandCalls' = commandCalls + 1
    /\ PerspectiveOp(offsetX, offsetY, offsetZ)
    /\ UNCHANGED <<options, host, scalePair, flagVars, rendererVars, monitorVars, surfaceVars,
                   urlVars, loads, timers, timerErrors, motionVars, countVars,
                   controls, baseVars, _orbitSpeed, _panSpeed, _zoomSpeed,
                   _baseOrientation>>
    /\ lastCommand' = "perspective"

SetPerspectiveIntensity(intensity) ==
    /\ commandCalls < MaxCommands
    /\ commandCalls' = commandCalls + 1
    /\ options' = [options EXCEPT !.perspectiveIntensity = intensity]
    /\ UNCHANGED <<host, scalePair, flagVars, rendererVars, monitorVars, surfaceVars,
                   urlVars, loads, timers, timerErrors, motionVars, countVars,
                   cameraVars, baseVars, transformVars, _currentPerspective, lastOffset,
                   _orbitSpeed, _panSpeed, _zoomSpeed, _baseOrientation>>
    /\ lastCommand' = "setPerspectiveIntensity"

\* --------------------------------------------------------- camera commands
\* The guard of pan() and zoom() without its isFallbackMode test.
CameraCommandRefusedUnlessLoading == isLoading \/ camera = NoCamera

\* The guard pan() and zoom() open with: lines 512-513 and 533-534.
CameraCommandRefused == isFallbackMode \/ isLoading \/ camera = NoCamera

\* A pan that moves the base position along the depth axis as well.
PannedAlongDepth(base, deltaX, deltaY) ==
    <<Sub(base[1], Mul(deltaX, _panSpeed)), Add(base[2], Mul(deltaY, _panSpeed)),
      Add(base[3], Mul(deltaX, _panSpeed))>>

\* _initialCameraPosition after pan(deltaX, deltaY)
Panned(base, deltaX, deltaY) ==
    <<Sub(base[1], Mul(deltaX, _panSpeed)), Add(base[2], Mul(deltaY, _panSpeed)), base[3]>>

\* _initialCameraPosition after zoom(delta)
Zoomed(base, delta) == <<base[1], base[2], Add(base[3], Mul(delta, _zoomSpeed))>>

Pan(deltaX, deltaY) ==
    /\ commandCalls < MaxCommands
    /\ commandCalls' = commandCalls + 1
    /\ IF CameraCommandRefused
       THEN UNCHANGED <<_initialCameraPosition, camera>>
       ELSE /\ _initialCameraPosition' = Panned(_initialCameraPosition, deltaX, deltaY)
            /\ camera' = [camera EXCEPT
                             !.position = Panned(_initialCameraPosition, deltaX, deltaY)]
    /\ UNCHANGED <<options, host, scalePair, flagVars, rendererVars, monitorVars, surfaceVars,
                   urlVars, loads, timers, timerErrors, motionVars, countVars,
                   controls, _initialCameraLookAt, transformVars, _currentPerspective, lastOffset,
                   _orbitSpeed, _panSpeed, _zoomSpeed, _baseOrientation>>
    /\ lastCommand' = "pan"

Zoom(delta) ==
    /\ commandCalls < MaxCommands
    /\ commandCalls' = commandCalls + 1
    /\ IF CameraCommandRefused
       THEN UNCHANGED <<_initialCameraPosition, camera>>
       ELSE /\ _initialCameraPosition' = Zoomed(_initialCameraPosition, delta)
            /\ camera' = [camera EXCEPT
                             !.position = Zoomed(_initialCameraPosition, delta)]
    /\ UNCHANGED <<options, host, scalePair, flagVars, rendererVars, monitorVars, surfaceVars,
                   urlVars, loads, timers, timerErrors, motionVars, countVars,
                   controls, _initialCameraLookAt, transformVars, _currentPerspective, lastOffset,
                   _orbitSpeed, _panSpeed, _zoomSpeed, _baseOrientation>>
    /\ lastCommand' = "zoom"

\* rotate(deltaYaw, deltaPitch): lines 521-522 guard it, controls.rotateLeft
\* and controls.rotateUp take the scaled angles.
Rotate(deltaYaw, deltaPitch) ==
    /\ commandCalls < MaxCommands
    /\ commandCalls' = commandCalls + 1
    /\ IF isFallbackMode \/ isLoading \/ ~controls.present
       THEN UNCHANGED controls
       ELSE controls' = [controls EXCEPT !.left = Add(@, Mul(deltaYaw, _orbitSpeed)),
                                         !.up = Add(@, Mul(deltaPitch, _orbitSpeed))]
    /\ UNCHANGED <<options, host, scalePair, flagVars, rendererVars, monitorVars, surfaceVars,
                   urlVars, loads, timers, timerErrors, motionVars, countVars,
                   camera, baseVars, transformVars, _currentPerspective, lastOffset,
                   _orbitSpeed, _panSpeed, _zoomSpeed, _baseOrientation>>
    /\ lastCommand' = "rotate"

\* setCameraPosition(x, y, z): moves the camera, not the base pose.
SetCameraPosition(x, y, z) ==
    /\ commandCalls < MaxCommands
    /\ commandCalls' = commandCalls + 1
    /\ camera' = IF camera = NoCamera
                 THEN camera
                 ELSE [camera EXCEPT !.position = <<x, y, z>>]
    /\ UNCHANGED <<options, host, scalePair, flagVars, rendererVars, monitorVars, surfaceVars,
                   urlVars, loads, timers, timerErrors, motionVars, countVars,
                   controls, baseVars, transformVars, _currentPerspective, lastOffset,
                   _orbitSpeed, _panSpeed, _zoomSpeed, _baseOrientation>>
    /\ lastCommand' = "setCameraPosition"

SetSpeed(orbit, pan, zoom) ==
    /\ commandCalls < MaxCommands
    /\ commandCalls' = commandCalls + 1
    /\ _orbitSpeed' = orbit
    /\ _panSpeed' = pan
    /\ _zoomSpeed' = zoom
    /\ UNCHANGED <<options, host, scalePair, flagVars, rendererVars, monitorVars, surfaceVars,
                   urlVars, loads, timers, timerErrors, motionVars, countVars,
                   cameraVars, baseVars, transformVars, _currentPerspective, lastOffset,
                   _baseOrientation>>
    /\ lastCommand' = "setSpeed"

\* reset(): lines 540-560. calibrateDeviceMotion() is its last statement.
\* reset() keeping the base pose the session already holds.
ResetPoseKeepingBase ==
    [position |-> _initialCameraPosition, lookAt |-> _initialCameraLookAt]

\* The pose reset() restores on its 3-D path: the configured options.
ResetPose ==
    [position |-> options.cameraPosition, lookAt |-> options.cameraLookAt]

Reset ==
    /\ commandCalls < MaxCommands
    /\ commandCalls' = commandCalls + 1
    /\ _currentPerspective' = [x |-> 0, y |-> 0]
    /\ IF isLoading /\ _placeholder # None
       THEN /\ ApplyPlaceholderPerspective([x |-> 0, y |-> 0])
            /\ UNCHANGED <<fallbackTransform, camera, baseVars, _hasBaseOrientation>>
       ELSE IF isFallbackMode
            THEN /\ ApplyFallbackPerspective([x |-> 0, y |-> 0])
                 /\ UNCHANGED <<placeholderTransform, camera, baseVars,
                                _hasBaseOrientation>>
            ELSE IF camera = NoCamera
                 THEN UNCHANGED <<transformVars, camera, baseVars, _hasBaseOrientation>>
                 ELSE /\ _initialCameraPosition' = ResetPose.position
                      /\ _initialCameraLookAt' = ResetPose.lookAt
                      /\ camera' = [position |-> _initialCameraPosition',
                                    lookAt |-> _initialCameraLookAt']
                      /\ _hasBaseOrientation' = FALSE
                      /\ UNCHANGED transformVars
    /\ UNCHANGED <<_deviceMotionEnabled, _deviceMotionHandler, listeners,
                   listenerSeq, permPending>>
    /\ UNCHANGED <<options, host, scalePair, flagVars, rendererVars, monitorVars, surfaceVars,
                   urlVars, loads, timers, timerErrors, countVars, controls,
                   _orbitSpeed, _panSpeed, _zoomSpeed, _baseOrientation>>
    /\ lastOffset' = <<0, 0>>
    /\ lastCommand' = "reset"

\* ------------------------------------------------------------ device motion
\* Lines 482-486: the offset of an orientation delta in degrees, clamped to
\* +-30 degrees: (delta / 30) * 0.3.
\* beta - baseline.beta: NaN when either reading is undefined.
OrientationDelta(reading, baseline) ==
    IF reading = UndefinedAngle \/ baseline = UndefinedAngle THEN NaN ELSE reading - baseline

\* (Math.max(-30, Math.min(30, delta)) / 30) * 0.3, in hundredths; NaN stays NaN.
OrientationOffset(delta) ==
    IF delta = NaN
    THEN NaN
    ELSE LET clamped == IF delta > 30 THEN 30 ELSE IF delta < -30 THEN -30 ELSE delta IN
             ((clamped * Unit) * ((3 * Unit) \div 10)) \div (30 * Unit)

_setupDeviceMotion ==
    /\ listenerSeq' = listenerSeq + 1
    /\ _deviceMotionHandler' = listenerSeq + 1
    /\ listeners' = listeners \cup {listenerSeq + 1}
    /\ _deviceMotionEnabled' = TRUE
    /\ UNCHANGED _hasBaseOrientation

EnableDeviceMotion ==
    /\ enableCalls < MaxEnables
    /\ enableCalls' = enableCalls + 1
    /\ released' = FALSE
    /\ IF _deviceMotionEnabled
       THEN UNCHANGED motionVars
       ELSE IF host.permissionApi
            THEN /\ permPending' = permPending + 1
                 /\ UNCHANGED <<_deviceMotionEnabled, _deviceMotionHandler,
                                _hasBaseOrientation, listeners, listenerSeq>>
            ELSE /\ _setupDeviceMotion
                 /\ UNCHANGED permPending
    /\ UNCHANGED <<options, host, scalePair, flagVars, rendererVars, monitorVars, surfaceVars,
                   urlVars, loads, timers, timerErrors, onFallbackCalls,
                   repeatedRequest, tickedLive, disposeCalls, surfacesAtDispose,
                   tickedHeld, disposed, poseVars>>
    /\ lastCommand' = NoCommand

\* requestPermission() settled: 'granted' sets the listener up, anything else
\* (or a rejection) does nothing.
PermissionSettled(granted) ==
    /\ permPending > 0
    /\ permPending' = permPending - 1
    /\ IF granted
       THEN _setupDeviceMotion
       ELSE UNCHANGED <<_deviceMotionEnabled, _deviceMotionHandler,
                        _hasBaseOrientation, listeners, listenerSeq>>
    /\ UNCHANGED <<options, host, scalePair, flagVars, rendererVars, monitorVars, surfaceVars,
                   urlVars, loads, timers, timerErrors, countVars, poseVars>>
    /\ lastCommand' = NoCommand

\* removeEventListener(this._deviceMotionHandler) on the registered listeners
RemovedListeners(ls, handler) == IF handler # None THEN ls \ {handler} ELSE ls

DisableDeviceMotion ==
    /\ listeners' = RemovedListeners(listeners, _deviceMotionHandler)
    /\ _deviceMotionHandler' = None
    /\ _deviceMotionEnabled' = FALSE
    /\ _hasBaseOrientation' = FALSE
    /\ released' = TRUE
    /\ UNCHANGED <<listenerSeq, permPending>>
    /\ UNCHANGED <<options, host, scalePair, flagVars, rendererVars, monitorVars, surfaceVars,
                   urlVars, loads, timers, timerErrors, onFallbackCalls,
                   repeatedRequest, tickedLive, disposeCalls, enableCalls,
                   surfacesAtDispose, tickedHeld, disposed, poseVars>>
    /\ lastCommand' = NoCommand

\* The sensor handler's early returns, without the test of the session's mode.
SampleIgnoredAnyMode(event) ==
    event.beta = NullAngle \/ event.gamma = NullAngle

\* The sensor handler's two early returns: outside loading, loaded and
\* fallback, and on a reading that is strictly null.
SampleIgnored(event) ==
    \/ ~isLoading /\ ~isLoaded /\ ~isFallbackMode
    \/ event.beta = NullAngle \/ event.gamma = NullAngle

\* The handler _setupDeviceMotion registers (lines 470-490), run for one
\* deviceorientation event.
DeviceOrientation(h, event) ==
    /\ h \in listeners
    /\ commandCalls < MaxCommands
    /\ commandCalls' = commandCalls + 1
    /\ IF SampleIgnored(event)
       THEN UNCHANGED <<_baseOrientation, _hasBaseOrientation, _currentPerspective, lastOffset,
                        camera, transformVars>>
       ELSE IF ~_hasBaseOrientation
            THEN /\ _baseOrientation' = event
                 /\ _hasBaseOrientation' = TRUE
                 /\ UNCHANGED <<_currentPerspective, lastOffset, camera, transformVars>>
            ELSE /\ PerspectiveOp(
                        OrientationOffset(
                            OrientationDelta(event.gamma, _baseOrientation.gamma)),
                        OrientationOffset(
                            OrientationDelta(event.beta, _baseOrientation.beta)), 0)
                 /\ UNCHANGED <<_baseOrientation, _hasBaseOrientation>>
    /\ UNCHANGED <<options, host, scalePair, flagVars, rendererVars, monitorVars, surfaceVars,
                   urlVars, loads, timers, timerErrors, countVars, controls,
                   baseVars, _orbitSpeed, _panSpeed, _zoomSpeed>>
    /\ UNCHANGED <<_deviceMotionEnabled, _deviceMotionHandler, listeners,
                   listenerSeq, permPending>>
    /\ lastCommand' = "deviceorientation"

CalibrateDeviceMotion ==
    /\ commandCalls < MaxCommands
    /\ commandCalls' = commandCalls + 1
    /\ _hasBaseOrientation' = FALSE
    /\ UNCHANGED <<_deviceMotionEnabled, _deviceMotionHandler, listeners,
                   listenerSeq, permPending>>
    /\ UNCHANGED <<options, host, scalePair, flagVars, rendererVars, monitorVars, surfaceVars,
                   urlVars, loads, timers, timerErrors, countVars, cameraVars,
                   baseVars, transformVars, _currentPerspective, lastOffset, _orbitSpeed,
                   _panSpeed, _zoomSpeed, _baseOrientation>>
    /\ lastCommand' = "calibrateDeviceMotion"

\* ----------------------------------------------------------------- dispose
\* The fields dispose() reads or writes, as one value.
Session ==
    [timer |-> _memoryCheckTimer, intervals |-> intervals,
     handler |-> _deviceMotionHandler, listeners |-> listeners,
     motionEnabled |-> _deviceMotionEnabled, hasBase |-> _hasBaseOrientation,
     placeholder |-> _placeholder, fallbackImage |-> _fallbackImage,
     attached |-> attached,
     viewer |-> viewer, disposedViewers |-> disposedViewers,
     isLoaded |-> isLoaded, isLoading |-> isLoading,
     isFallbackMode |-> isFallbackMode]

\* dispose() as a function of the session: lines 575-590 in order.
DisposeOp(s) ==
    [s EXCEPT
        !.intervals = ClearedIntervals(s.intervals, s.timer),
        !.timer = None,
        !.listeners = RemovedListeners(s.listeners, s.handler),
        !.handler = None,
        !.motionEnabled = FALSE,
        !.hasBase = FALSE,
        !.attached = s.attached \ {s.placeholder, s.fallbackImage},
        !.disposedViewers = IF s.viewer # None
                            THEN s.disposedViewers \cup {s.viewer}
                            ELSE s.disposedViewers,
        !.viewer = None,
        !.isLoaded = FALSE,
        !.isLoading = FALSE,
        !.isFallbackMode = FALSE]

Dispose ==
    /\ disposeCalls < MaxDisposes
    /\ disposeCalls' = disposeCalls + 1
    /\ LET d == DisposeOp(Session) IN
        /\ _memoryCheckTimer' = d.timer
        /\ intervals' = d.intervals
        /\ _deviceMotionHandler' = d.handler
        /\ listeners' = d.listeners
        /\ _deviceMotionEnabled' = d.motionEnabled
        /\ _hasBaseOrientation' = d.hasBase
        /\ attached' = d.attached
        /\ viewer' = d.viewer
        /\ disposedViewers' = d.disposedViewers
        /\ isLoaded' = d.isLoaded
        /\ isLoading' = d.isLoading
        /\ isFallbackMode' = d.isFallbackMode
    /\ loads' = MarkDispose(loads)
    /\ surfacesAtDispose' = 1 .. elemSeq
    /\ released' = TRUE
    /\ disposed' = TRUE
    /\ camera' = NoCamera /\ controls' = NoControls
    /\ UNCHANGED <<options, host, scalePair, created, intervalSeq, _placeholder, _fallbackImage,
                   _loadingBar, elemSeq, urlVars, timers, timerErrors,
                   listenerSeq, permPending, onFallbackCalls, repeatedRequest,
                   tickedLive, enableCalls, tickedHeld, baseVars, transformVars,
                   offsetVars>>
    /\ lastCommand' = NoCommand

\* ------------------------------------------------------------ specification
Next ==
    \/ \E arg \in LoadArgs : Load(arg)
    \/ \E i \in DOMAIN loads : \E scene \in SceneDescriptors : FetchResolve(i, scene)
    \/ \E i \in DOMAIN loads : FetchReject(i)
    \/ \E i \in DOMAIN loads : SceneResolve(i)
    \/ \E i \in DOMAIN loads : SceneReject(i)
    \/ ForceFallback
    \/ \E t \in intervals : \E mb \in UsageSamplesMB : MemoryTick(t, mb)
    \/ RevealFrame
    \/ RevealTimeout
    \/ BarHideTimeout
    \/ BarRemoveTimeout
    \/ Dispose

\* The session on a host without a permission gate for device orientation,
\* with no device-motion calls made.
InitUngated ==
    /\ Init
    /\ ~host.permissionApi

Spec == InitUngated /\ [][Next]_vars

\* The session of one scene given by URL, with or without a preview image,
\* with the camera commands and perspective().
InitCamera ==
    /\ Init
    /\ options.sceneId = NullStr
    /\ options.plyUrl # NullStr
    /\ ~options.showLoadingBar
    /\ host.memory
    /\ ~host.permissionApi

NextCamera ==
    \/ Load(NullStr)
    \/ \E i \in DOMAIN loads : SceneResolve(i)
    \/ \E i \in DOMAIN loads : SceneReject(i)
    \/ ForceFallback
    \/ \E t \in intervals : \E mb \in UsageSamplesMB : MemoryTick(t, mb)
    \/ RevealFrame
    \/ RevealTimeout
    \/ Dispose
    \/ \E a \in PerspectiveArgs : Perspective(a[1], a[2], a[3])
    \/ \E i \in IntensityArgs : SetPerspectiveIntensity(i)
    \/ \E a \in PanArgs : Pan(a[1], a[2])
    \/ \E d \in ZoomArgs : Zoom(d)
    \/ \E a \in RotateArgs : Rotate(a[1], a[2])
    \/ \E a \in SpeedArgs : SetSpeed(a[1], a[2], a[3])
    \/ \E a \in CameraPositionArgs : SetCameraPosition(a[1], a[2], a[3])
    \/ Reset

SpecCamera == InitCamera /\ [][NextCamera]_vars

\* The session of one scene given by URL with a preview image, with the
\* orientation sensor, calibration and reset(), on a host without
\* performance.memory (no memory-check interval is ever started).
InitMotion ==
    /\ Init
    /\ options.sceneId = NullStr
    /\ options.plyUrl # NullStr
    /\ options.placeholderImage # NullStr
    /\ ~options.showLoadingBar
    /\ ~host.memory
    /\ ~host.permissionApi

NextMotion ==
    \/ Load(NullStr)
    \/ \E i \in DOMAIN loads : SceneResolve(i)
    \/ \E i \in DOMAIN loads : SceneReject(i)
    \/ ForceFallback
    \/ RevealFrame
    \/ RevealTimeout
    \/ Dispose
    \/ Reset
    \/ EnableDeviceMotion
    \/ DisableDeviceMotion
    \/ CalibrateDeviceMotion
    \/ \E h \in listeners : \E e \in OrientationSamples : DeviceOrientation(h, e)

SpecMotion == InitMotion /\ [][NextMotion]_vars

\* The same session on a host that gates the sensor behind
\* DeviceOrientationEvent.requestPermission(): the listener is registered
\* when the request settles with 'granted'.  Registration and release only:
\* no sample is delivered.
InitGated ==
    /\ Init
    /\ options.sceneId = NullStr
    /\ options.plyUrl # NullStr
    /\ options.placeholderImage # NullStr
    /\ ~options.showLoadingBar
    /\ ~host.memory
    /\ host.permissionApi

NextGated ==
    \/ Load(NullStr)
    \/ \E i \in DOMAIN loads : SceneResolve(i)
    \/ \E i \in DOMAIN loads : SceneReject(i)
    \/ ForceFallback
    \/ RevealFrame
    \/ RevealTimeout
    \/ Dispose
    \/ EnableDeviceMotion
    \/ \E granted \in BOOLEAN : PermissionSettled(granted)
    \/ DisableDeviceMotion

SpecGated == InitGated /\ [][NextGated]_vars

\* ================================================================== claims
Settled(l) == l.pc \in {"resolved", "rejected"}

Undisposed == (1 .. created) \ disposedViewers

\* C1: at most one of the mode flags isLoading, isLoaded and isFallbackMode is
\* true in every reachable state.
C1_ModeFlagsExclusive ==
    /\ ~(isLoading /\ isLoaded)
    /\ ~(isLoading /\ isFallbackMode)
    /\ ~(isLoaded /\ isFallbackMode)

\* C2: whenever isFallbackMode is true the session holds no renderer handle.
C2_FallbackHoldsNoRenderer == isFallbackMode => viewer = None

\* C3: a load() during whose flight forceFallback() downgraded the session
\* settles with the session in Fallback only: not Live, not Loading, no
\* renderer held.
C3_ForceFallbackDuringLoad ==
    [][\A i \in DOMAIN loads :
          (InFlight(loads[i]) /\ loads[i].ff /\ Settled(loads'[i]))
          => (isFallbackMode' /\ ~isLoaded' /\ ~isLoading' /\ viewer' = None)]_vars

\* C4: after dispose() during a load's flight, a continuation of that load
\* leaves no renderer handle, no running memory-check interval and isLoaded
\* false.
C4_DisposeDuringLoad ==
    [][\A i \in DOMAIN loads :
          (InFlight(loads[i]) /\ loads[i].disp /\ loads'[i].pc # loads[i].pc)
          => (viewer' = None /\ intervals' = {} /\ ~isLoaded')]_vars

\* C5: when the renderer's scene load fails, load() leaves the session in
\* Idle with the renderer of that load disposed and dropped and the surfaces
\* of that load detached from the container.
C5_SceneFailureLeavesIdle ==
    [][\A i \in DOMAIN loads :
          (loads[i].pc = "scene" /\ loads'[i].err = "scene")
          => /\ ~isLoading' /\ ~isLoaded'
             /\ viewer' = None
             /\ loads[i].vid \in disposedViewers'
             /\ loads[i].elems \cap attached' = {}]_vars

\* C6: from every reachable state, dispose() twice gives the state one
\* dispose() gives, and after it no memory-check interval runs and no
\* deviceorientation listener is registered.
C6_DisposeIdempotentComplete ==
    LET d == DisposeOp(Session) IN
        /\ DisposeOp(d) = d
        /\ d.intervals = {}
        /\ d.listeners = {}

\* C7: at most one memory-check interval is running in every reachable state.
C7_AtMostOneMonitor == Cardinality(intervals) <= 1

\* C8: at most one renderer instance is undisposed at any time, and a step
\* that enters Fallback or runs dispose() leaves every renderer instance the
\* session ever created disposed.
C8_EveryRendererReleased ==
    [][/\ Cardinality(Undisposed') <= 1
       /\ ((~isFallbackMode /\ isFallbackMode') \/ disposeCalls' # disposeCalls)
          => Undisposed' = {}]_vars

\* C9: a tick of a running interval that reads usage above the threshold
\* while the session is Live disposes and drops the renderer and sets
\* isFallbackMode within that tick, and the interval that ticked is cancelled:
\* it is never among the running intervals again.
C9_TickAboveThresholdDowngrades ==
    /\ [][\A t \in intervals : \A mb \in UsageSamplesMB :
            (/\ isLoaded /\ ~isFallbackMode /\ viewer # None
             /\ AboveThreshold(mb)
             /\ MemoryTick(t, mb))
            => (/\ viewer' = None
                /\ viewer \in disposedViewers'
                /\ isFallbackMode')]_vars
    /\ [](tickedLive \cap intervals = {})

\* C10: before the first dispose(), onFallback has been invoked at most once,
\* whatever downgrade requests (forceFallback() calls, ticks above the
\* threshold) were made.
C10_OnFallbackAtMostOnce == disposeCalls = 0 => onFallbackCalls <= 1

\* C10 witness: a downgrade was requested again while already in Fallback,
\* and onFallback has still run once.
C10_Witness == disposeCalls = 0 /\ repeatedRequest /\ onFallbackCalls = 1

\* C11: after a load() that was called in Fallback has resolved, with no
\* dispose() so far, a memory tick that reads usage above the threshold
\* releases the renderer that load created and cancels the interval that
\* ticked.
C11_LoadStartsFreshEpoch ==
    [][\A t \in intervals :
          (/\ disposeCalls = 0
           /\ \E i \in DOMAIN loads :
                 loads[i].fb /\ loads[i].pc = "resolved" /\ loads[i].vid = viewer
           /\ t \in tickedHeld' \ tickedHeld)
          => (/\ viewer' = None
              /\ viewer \in disposedViewers'
              /\ t \notin intervals')]_vars

\* C12: in every reachable state where a memory-check interval is running,
\* isLoaded is true, isFallbackMode is false and a renderer handle is held.
C12_MonitorOnlyWhileLive ==
    intervals # {} => (isLoaded /\ ~isFallbackMode /\ viewer # None)

\* C13: once dispose() has been called and no deferred callback is pending,
\* none of the placeholder, fallback-image and loading-bar elements the
\* session had created by then is attached to the container.
C13_DisposeDetachesSurfaces ==
    (disposeCalls > 0 /\ timers = NoTimers) => attached \cap surfacesAtDispose = {}

\* The mode of the session, read off its three flags.
Idle == ~isLoading /\ ~isLoaded /\ ~isFallbackMode
Loading == isLoading
Fallback == isFallbackMode
Live == isLoaded /\ ~isLoading /\ ~isFallbackMode

CameraCommands == {"pan", "rotate", "zoom"}

\* C14: a pan, rotate or zoom call made while the session is not Live leaves
\* the base pose, the camera pose and the renderer controls unchanged.
C14_CameraCommandsNoOpUnlessLive ==
    [][(~Live /\ lastCommand' \in CameraCommands)
       => UNCHANGED <<baseVars, cameraVars>>]_vars

\* Every variable of the session but the record of the calls made on it.
sessionVars ==
    <<options, host, flagVars, rendererVars, monitorVars, surfaceVars, urlVars,
      loads, timers, timerErrors, motionVars, cameraVars, baseVars, transformVars,
      _currentPerspective, _orbitSpeed, _panSpeed, _zoomSpeed, _baseOrientation>>

\* C15: a pan, rotate or zoom call made once the session is in Fallback
\* changes no state of the session, and the renderer it would act on is
\* never a disposed one.
C15_DowngradeWinsOverCommands ==
    /\ [][(Fallback /\ lastCommand' \in CameraCommands)
          => UNCHANGED sessionVars]_vars
    /\ [](viewer \notin disposedViewers)

\* C15 witness: load() resolved, the session was downgraded, and the latest
\* step was a camera command run in Fallback.
C15_Witness ==
    /\ Fallback /\ isLoaded
    /\ lastCommand \in CameraCommands
    /\ viewer = None /\ camera = NoCamera

\* The 2-D transform of an offset (x, y) at the intensity the step ends with.
OffsetTransform(xy) ==
    Transform2D([x |-> xy[1], y |-> xy[2]], options'.perspectiveIntensity)

\* C16: perspective(x, y) stores exactly (x, y) in _currentPerspective in
\* every mode; in Fallback it gives the fallback image the 2-D transform of
\* (x, y), in Loading it gives the placeholder that transform, in Live it
\* moves the camera to base + offset * intensity, and in Idle it changes
\* neither a transform nor the camera.
C16_PerspectiveRoutedByMode ==
    [][\A a \in PerspectiveArgs :
          Perspective(a[1], a[2], a[3])
          => /\ _currentPerspective' = [x |-> a[1], y |-> a[2]]
             /\ (Fallback /\ _fallbackImage # None)
                => fallbackTransform' = OffsetTransform(a)
             /\ (Loading /\ _placeholder # None)
                => placeholderTransform' = OffsetTransform(a)
             /\ (Live /\ camera # NoCamera)
                => camera' = LivePose(_initialCameraPosition, _initialCameraLookAt,
                                      a[1], a[2], a[3], options.perspectiveIntensity)
             /\ Idle => UNCHANGED <<camera, transformVars>>]_vars

\* C17: a step that takes the session into Fallback while a fallback image
\* exists leaves on that image the 2-D transform of the offset last passed to
\* perspective(), or of (0, 0) after reset() or when none was passed.
C17_OffsetContinuityOnDowngrade ==
    [][(~isFallbackMode /\ isFallbackMode' /\ _fallbackImage # None)
       => fallbackTransform' = OffsetTransform(lastOffset)]_vars

\* C17 witness: the one load() of the session resolved after perspective()
\* had put a non-zero offset on its placeholder, the session was downgraded
\* afterwards, and the fallback image carries the transform of that offset.
C17_Witness ==
    /\ Fallback
    /\ Len(loads) = 1 /\ loads[1].pc = "resolved" /\ ~loads[1].fb
    /\ lastOffset # <<0, 0>>
    /\ placeholderTransform =
          Transform2D([x |-> lastOffset[1], y |-> lastOffset[2]],
                      options.perspectiveIntensity)
    /\ fallbackTransform = placeholderTransform

\* A load() has resolved: the base pose of a load cycle was captured.
Captured == \E i \in DOMAIN loads : loads[i].pc = "resolved"

\* A step that ran forceFallback() or any other downgrade to the end.
Downgraded == onFallbackCalls' # onFallbackCalls

\* C18 as stated: once load() captured the base pose, no perspective, pan,
\* rotate, zoom, setSpeed, setPerspectiveIntensity call, sensor sample or
\* downgrade changes _initialCameraPosition or _initialCameraLookAt.
C18_BasePoseImmutable ==
    [][(/\ Captured
        /\ \/ lastCommand' \in {"perspective", "pan", "rotate", "zoom", "setSpeed",
                                 "setPerspectiveIntensity", "deviceorientation"}
           \/ Downgraded)
       => UNCHANGED baseVars]_vars

\* C18 amended: once load() captured the base pose, no perspective, rotate,
\* setSpeed, setPerspectiveIntensity call, sensor sample or downgrade changes
\* the base pose; pan(dx, dy) and zoom(d) never change _initialCameraLookAt,
\* and they leave _initialCameraPosition alone or move it by
\* (-dx * _panSpeed, dy * _panSpeed, 0) and (0, 0, d * _zoomSpeed).
C18_BasePoseMovedByPanZoomOnly ==
    [][Captured =>
        /\ (\/ lastCommand' \in {"perspective", "rotate", "setSpeed",
                                  "setPerspectiveIntensity", "deviceorientation"}
             \/ Downgraded)
           => UNCHANGED baseVars
        /\ lastCommand' \in {"pan", "zoom"} => UNCHANGED _initialCameraLookAt
        /\ \A a \in PanArgs :
              Pan(a[1], a[2])
              => \/ UNCHANGED _initialCameraPosition
                 \/ _initialCameraPosition' =
                      <<_initialCameraPosition[1] - (a[1] * _panSpeed) \div Unit,
                        _initialCameraPosition[2] + (a[2] * _panSpeed) \div Unit,
                        _initialCameraPosition[3]>>
        /\ \A d \in ZoomArgs :
              Zoom(d)
              => \/ UNCHANGED _initialCameraPosition
                 \/ _initialCameraPosition' =
                      <<_initialCameraPosition[1], _initialCameraPosition[2],
                        _initialCameraPosition[3] + (d * _zoomSpeed) \div Unit>>]_vars

\* C18 witness: in Live, after a pan and a zoom, the base position is off
\* the configured one on all three axes and the look-at target is not.
C18_Witness ==
    /\ Live /\ Captured
    /\ lastCommand \in {"pan", "zoom"}
    /\ \A k \in 1 .. 3 : _initialCameraPosition[k] # options.cameraPosition[k]
    /\ _initialCameraLookAt = options.cameraLookAt

\* C19: in Live, perspective(x, y, z) with intensity i puts the camera at
\* base + (x*i, y*i, z*i*0.5) looking at the base look-at target, whatever
\* pose the camera had before, and perspective(0, 0, 0) puts it at the base
\* position.
C19_LivePerspectiveFromBase ==
    [][\A a \in PerspectiveArgs :
          (Live /\ Perspective(a[1], a[2], a[3]))
          => /\ camera'.position =
                  <<_initialCameraPosition[1] + (a[1] * options.perspectiveIntensity) \div Unit,
                    _initialCameraPosition[2] + (a[2] * options.perspectiveIntensity) \div Unit,
                    _initialCameraPosition[3]
                       + (a[3] * options.perspectiveIntensity) \div (2 * Unit)>>
             /\ camera'.lookAt = _initialCameraLookAt
             /\ a = <<0, 0, 0>> => camera'.position = _initialCameraPosition
             /\ UNCHANGED baseVars]_vars

\* C19 witness: in Live, a second command, perspective() with a depth
\* offset, has moved the camera off the base position on all three axes.
C19_Witness ==
    /\ Live
    /\ lastCommand = "perspective" /\ commandCalls = MaxCommands
    /\ \A k \in 1 .. 3 : camera.position[k] # _initialCameraPosition[k]
    /\ camera.lookAt = _initialCameraLookAt

\* C20: after reset(), in whichever mode it was called, _currentPerspective
\* is (0, 0) and _hasBaseOrientation is false.
C20_ResetClearsOffsetState ==
    [][lastCommand' = "reset"
       => (_currentPerspective' = [x |-> 0, y |-> 0] /\ ~_hasBaseOrientation')]_vars

\* C21: reset() called in Live sets the base position and look-at to the
\* configured options.cameraPosition and options.cameraLookAt, whatever pose
\* was captured at load and whatever pan and zoom did to it, and moves the
\* camera to that pose.
C21_ResetRestoresConfiguredPose ==
    [][(Live /\ lastCommand' = "reset")
       => /\ _initialCameraPosition' = options.cameraPosition
          /\ _initialCameraLookAt' = options.cameraLookAt
          /\ camera' = [position |-> options.cameraPosition,
                        lookAt |-> options.cameraLookAt]]_vars

\* A Live session whose latest step was the second of two commands, a
\* reset(): the base pose and the camera are at the configured pose.
C21_Witness ==
    /\ Live
    /\ lastCommand = "reset" /\ commandCalls = MaxCommands
    /\ _initialCameraPosition = options.cameraPosition
    /\ camera = [position |-> options.cameraPosition, lookAt |-> options.cameraLookAt]

\* C22: reset() called in Fallback gives the fallback image the zero-offset
\* 2-D transform (no translation, no rotation, scale 1) and leaves the
\* renderer handle, the camera, the mode flags and the base pose unchanged.
C22_ResetInFallbackIsTwoD ==
    [][(Fallback /\ lastCommand' = "reset")
       => /\ _fallbackImage # None
               => fallbackTransform'
                    = [css |-> "perspective(1000px)", translateX |-> 0,
                       translateY |-> 0, rotateY |-> 0, rotateX |-> 0,
                       scale |-> ScaleUnit]
          /\ UNCHANGED <<flagVars, rendererVars, cameraVars, baseVars>>]_vars

\* A sample both of whose readings are numbers.
ValidSample(event) ==
    /\ event.beta \notin {NullAngle, UndefinedAngle}
    /\ event.gamma \notin {NullAngle, UndefinedAngle}

\* The state a sample finds when it is captured as the baseline: no
\* perspective update of any kind.
NoPerspectiveUpdate == UNCHANGED <<_currentPerspective, cameraVars, transformVars>>

\* A sample equal to a held numeric baseline that the handler processes
\* yields the offset (0, 0).
BaselineSampleIsCentred ==
    \A h \in listeners, e \in OrientationSamples :
        (/\ DeviceOrientation(h, e)
         /\ ValidSample(e) /\ ~Idle /\ _hasBaseOrientation /\ e = _baseOrientation)
            => (lastOffset' = <<0, 0>> /\ _currentPerspective' = [x |-> 0, y |-> 0])

\* C23 as stated: the first valid orientation sample delivered while no
\* baseline is held (after enableDeviceMotion(), calibrateDeviceMotion() or a
\* Live reset()) is captured as the baseline and produces no perspective
\* update; a following sample equal to the baseline yields offset (0, 0).
C23_FirstSampleIsBaseline ==
    [][/\ \A h \in listeners, e \in OrientationSamples :
              (DeviceOrientation(h, e) /\ ValidSample(e) /\ ~_hasBaseOrientation)
                 => (/\ _hasBaseOrientation' /\ _baseOrientation' = e
                     /\ NoPerspectiveUpdate)
       /\ BaselineSampleIsCentred]_vars

\* C23 amended: the first valid sample delivered while the session is loading,
\* loaded or in fallback and no baseline is held is captured as the baseline
\* and produces no perspective update; a sample delivered in Idle is ignored
\* and leaves the session still without a baseline; a following sample equal
\* to the baseline yields offset (0, 0).
C23_FirstSampleOutsideIdleIsBaseline ==
    [][/\ \A h \in listeners, e \in OrientationSamples :
              (DeviceOrientation(h, e) /\ ValidSample(e) /\ ~_hasBaseOrientation)
                 => IF Idle
                    THEN UNCHANGED sessionVars
                    ELSE /\ _hasBaseOrientation' /\ _baseOrientation' = e
                         /\ NoPerspectiveUpdate
       /\ BaselineSampleIsCentred]_vars

\* The only command so far was a sensor sample, delivered during the load:
\* it is held as the baseline and the offset is still (0, 0).
C23_Witness ==
    /\ lastCommand = "deviceorientation" /\ commandCalls = 1
    /\ ~Idle
    /\ _hasBaseOrientation /\ _baseOrientation = [beta |-> 10, gamma |-> 50]
    /\ _currentPerspective = [x |-> 0, y |-> 0]

\* clamp(delta, -30, +30) / 30 * 0.3 in hundredths, for a numeric delta
ExpectedOffset(delta) ==
    IF delta >= 30 THEN 30 ELSE IF delta <= -30 THEN -30 ELSE delta

\* C24: every sample processed after the baseline yields, per axis,
\* offset = clamp(sample - baseline, -30, +30) / 30 * 0.3 with gamma giving x
\* and beta giving y (a 10 degree delta gives 0.1, a 50 degree delta 0.3), and
\* every offset the sensor handler passes to perspective() lies in
\* [-0.3, 0.3] on both axes.
C24_OffsetClampedAndScaled ==
    /\ OrientationOffset(10) = 10 /\ OrientationOffset(50) = 30
    /\ [][\A h \in listeners, e \in OrientationSamples :
              (/\ DeviceOrientation(h, e)
               /\ ValidSample(e) /\ ValidSample(_baseOrientation)
               /\ ~Idle /\ _hasBaseOrientation)
                 => lastOffset' = <<ExpectedOffset(e.gamma - _baseOrientation.gamma),
                                    ExpectedOffset(e.beta - _baseOrientation.beta)>>]_vars
    /\ [][lastCommand' = "deviceorientation"
             => \A k \in 1 .. 2 : lastOffset'[k] \in -30 .. 30]_vars

\* C25: an orientation sample whose beta or gamma reading is null or undefined
\* is ignored without any state change: the baseline, _hasBaseOrientation,
\* _currentPerspective, the camera and every surface transform are unchanged,
\* whether or not a baseline is held.
C25_UnreadableSampleIgnored ==
    [][\A h \in listeners, e \in OrientationSamples :
          (DeviceOrientation(h, e) /\ ~ValidSample(e))
             => UNCHANGED <<_baseOrientation, _hasBaseOrientation, _currentPerspective,
                            cameraVars, transformVars>>]_vars

\* C26: the sensor listener is released on every path: after
\* disableDeviceMotion() or dispose() returns no deviceorientation listener of
\* the session is registered, and none becomes registered afterwards until
\* enableDeviceMotion() is called again, also when a permission request
\* started by an earlier enableDeviceMotion() is granted later.
C26_ListenerReleasedOnEveryPath ==
    /\ [][(DisableDeviceMotion \/ disposeCalls' # disposeCalls) => listeners' = {}]_vars
    /\ [](released => listeners = {})

\* C27: when the scene location cannot be resolved (sceneId set and the
\* descriptor fetch fails or reports a status other than 'completed'), load()
\* rejects with the error and leaves the session in Idle: isLoading and
\* isLoaded false, no renderer handle created and no placeholder, fallback
\* or loading-bar surface created.
C27_UnresolvedSceneLeavesIdle ==
    [][\A i \in DOMAIN loads :
          (loads[i].pc = "fetch" /\ loads'[i].err = "fetch")
          => /\ loads'[i].pc = "rejected"
             /\ ~isLoading' /\ ~isLoaded'
             /\ created' = created /\ viewer' = viewer
             /\ elemSeq' = elemSeq /\ attached' = attached]_vars

\* C28: load() with no argument on a viewer configured with neither plyUrl nor
\* sceneId does not fail for the missing location: it resolves the scene to
\* the built-in default demo (defaultPlyUrl, and defaultPlaceholder when no
\* placeholder image was given) and goes on to create the surfaces and the
\* renderer.
C28_DefaultSceneWhenNoLocation ==
    [][(Load(NullStr) /\ options.sceneId = NullStr /\ options.plyUrl = NullStr)
       => /\ _plyUrl' = options.defaultPlyUrl
          /\ _imageUrl' = IF options.placeholderImage = NullStr
                          THEN options.defaultPlaceholder
                          ELSE options.placeholderImage
          /\ loads'[Len(loads')].pc = "scene"
          /\ created' = created + 1 /\ viewer' = created'
          /\ {_placeholder', _fallbackImage'} \subseteq attached' \ (1 .. elemSeq)]_vars

\* A viewer configured with no location and no placeholder image is loading
\* the default demo scene behind the default placeholder.
C28_Witness ==
    /\ options.sceneId = NullStr /\ options.plyUrl = NullStr
    /\ options.placeholderImage = NullStr
    /\ isLoading /\ Len(loads) = 1 /\ loads[1].pc = "scene"
    /\ _plyUrl = options.defaultPlyUrl /\ _imageUrl = options.defaultPlaceholder
    /\ viewer # None /\ _placeholder \in attached

C30_NoProbeNoMonitor ==
    /\ [](~host.memory => (intervals = {} /\ _memoryCheckTimer = None))
    /\ [][(~host.memory /\ ~isFallbackMode /\ isFallbackMode') => ForceFallback]_vars
    /\ [][\A i \in DOMAIN loads :
              (~host.memory /\ viewer # None /\ SceneResolve(i))
                 => (/\ loads'[i].pc = "resolved" /\ loads'[i].err = "none"
                     /\ timerErrors' = timerErrors)]_vars

\* A host without the probe: the load has resolved, the session is Live and
\* no interval runs.
C30_Witness ==
    /\ ~host.memory
    /\ Live /\ Len(loads) = 1 /\ loads[1].pc = "resolved" /\ loads[1].err = "none"
    /\ intervals = {} /\ _memoryCheckTimer = None

\* A statement that dereferences a receiver throws a TypeError exactly when
\* it is reached (the guards before it let the call through) and the
\* receiver is null.
Throws(reached, receiverIsNull) == reached /\ receiverIsNull

\* this.camera is this.viewer?.camera: null without a renderer handle.
CameraIsNull == viewer = None \/ camera = NoCamera

\* A reset() that goes on to the camera without testing that there is one.
ResetThrowsUnguarded ==
    IF isLoading /\ _placeholder # None
    THEN Throws(_placeholder # None, _placeholder = None)
    ELSE IF isFallbackMode
         THEN Throws(_fallbackImage # None, _fallbackImage = None)
         ELSE Throws(TRUE, CameraIsNull)

\* perspective() and reset(), called in the current state: the placeholder,
\* the fallback image and the camera are each dereferenced behind a guard.
PerspectiveThrows ==
    IF isLoading /\ _placeholder # None
    THEN Throws(_placeholder # None, _placeholder = None)
    ELSE IF isFallbackMode
         THEN Throws(_fallbackImage # None, _fallbackImage = None)
         ELSE Throws(camera # NoCamera, CameraIsNull)

ResetThrows ==
    IF isLoading /\ _placeholder # None
    THEN Throws(_placeholder # None, _placeholder = None)
    ELSE IF isFallbackMode
         THEN Throws(_fallbackImage # None, _fallbackImage = None)
         ELSE Throws(camera # NoCamera, CameraIsNull)

\* pan(), zoom(), getCameraPosition() and setCameraPosition() dereference
\* this.camera; rotate() dereferences this.viewer after testing
\* this.viewer?.controls.
CameraCommandThrows ==
    \/ Throws(~CameraCommandRefused, CameraIsNull)
    \/ Throws(camera # NoCamera, CameraIsNull)
    \/ Throws(~isFallbackMode /\ ~isLoading /\ controls.present, viewer = None)

\* forceFallback() and dispose() dereference the renderer handle and the
\* surfaces, each behind a test of the same reference.
ReleaseThrows ==
    \/ Throws(~isFallbackMode /\ viewer # None, viewer = None)
    \/ Throws(~isFallbackMode /\ _fallbackImage # None, _fallbackImage = None)
    \/ Throws(~isFallbackMode /\ _loadingBar # None, _loadingBar = None)
    \/ Throws(_placeholder # None /\ _placeholder \in attached, _placeholder = None)
    \/ Throws(_fallbackImage # None /\ _fallbackImage \in attached, _fallbackImage = None)
    \/ Throws(viewer # None, viewer = None)

C32_ExactlyOneCallbackPerLoad ==
    /\ [](\A i \in DOMAIN loads :
            /\ loads[i].onLoad = (IF loads[i].pc = "resolved" THEN 1 ELSE 0)
            /\ loads[i].onError = (IF loads[i].pc = "rejected" THEN 1 ELSE 0))
    /\ [][\A i \in DOMAIN loads :
              (loads[i].pc # "resolved" /\ loads'[i].pc = "resolved") => Live']_vars

\* ------------------------------------------------------------------- C33
\* Offsets and intensities the two 2-D transforms are compared on: offsets
\* inside and outside the unit range, of both signs, and the intensities a
\* session can have.
OffsetGrid == {-2 * Unit, -Unit, -30, 0, 10, Unit \div 2, Unit, 2 * Unit}
IntensityGrid == {Unit \div 2, Unit}

\* The transform as the arithmetic of lines 180-187 and 280-287 gives it
\* for an offset (x, y) and an intensity i, all in hundredths (the scale in
\* units of 1 / ScaleUnit).
ExpectedTransform(x, y, i) ==
    [css |-> "perspective(1000px)",
     translateX |-> (2 * x * (10 * i)) \div Unit,
     translateY |-> (2 * y * (10 * i)) \div Unit,
     rotateY |-> (5 * x * i) \div Unit,
     rotateX |-> 0 - ((5 * y * i) \div Unit),
     scale |-> ScaleUnit + 2 * (Abs(x) + Abs(y))]

\* The placeholder's and the fallback image's transform agree with the
\* arithmetic on every offset and intensity of the grid.
TransformsAgreeOnGrid ==
    \A x \in OffsetGrid : \A y \in OffsetGrid : \A i \in IntensityGrid :
        /\ Transform2D([x |-> x, y |-> y], i) = ExpectedTransform(x, y, i)
        /\ FallbackTransform2D([x |-> x, y |-> y], i) = ExpectedTransform(x, y, i)

\* C33: the 2-D transform is the same function for the placeholder and the
\* fallback image: for every offset (x, y) and intensity i both get
\* translateX = 2*x*(10*i), translateY = 2*y*(10*i), rotateY = 0.5*x*(10*i),
\* rotateX = -0.5*y*(10*i) and scale = 1 + 0.02*(|x| + |y|); a perspective()
\* step writes that value, computed from its arguments and the intensity
\* only, to at most one of the two surfaces and changes no surface handle,
\* mode flag or option.
C33_SameTransformOnBothSurfaces ==
    /\ []TransformsAgreeOnGrid
    /\ [][\A a \in PerspectiveArgs :
            Perspective(a[1], a[2], a[3])
            => LET e == ExpectedTransform(a[1], a[2], options.perspectiveIntensity) IN
                 /\ (isLoading /\ _placeholder # None)
                    => placeholderTransform' = e /\ UNCHANGED fallbackTransform
                 /\ (~(isLoading /\ _placeholder # None)
                       /\ isFallbackMode /\ _fallbackImage # None)
                    => fallbackTransform' = e /\ UNCHANGED placeholderTransform
                 /\ placeholderTransform' \in {placeholderTransform, e}
                 /\ fallbackTransform' \in {fallbackTransform, e}
                 /\ UNCHANGED <<surfaceVars, flagVars, options>>]_vars

\* C33 witness: perspective() was the latest step, in Fallback, with an
\* offset that tilts the image, and the placeholder of the load carries the
\* very transform the fallback image has: both surfaces received the
\* transform of the same offset.
C33_Witness ==
    /\ Fallback /\ lastCommand = "perspective"
    /\ _placeholder # None /\ _fallbackImage # None
    /\ lastOffset = <<Unit, -Unit>>
    /\ fallbackTransform = ExpectedTransform(Unit, -Unit, options.perspectiveIntensity)
    /\ placeholderTransform = fallbackTransform

\* ------------------------------------------------------------------- C34
\* The scale factor as the double line 187 (and 287) computes:
\* 1 + Math.abs(x * 0.02) + Math.abs(y * 0.02), each product and each sum
\* rounded to 53 significant bits, ties to even. Natural numbers wider than
\* 32 bits are little-endian sequences of bits.
\* Transform2D carries the same factor at the resolution of 1 / ScaleUnit.
Bit(a, i) == IF i <= Len(a) THEN a[i] ELSE 0

RECURSIVE AddFrom(_, _, _, _)
AddFrom(a, b, i, carry) ==
    IF i > Len(a) /\ i > Len(b)
    THEN IF carry = 1 THEN <<1>> ELSE <<>>
    ELSE LET s == Bit(a, i) + Bit(b, i) + carry
         IN  <<s % 2>> \o AddFrom(a, b, i + 1, s \div 2)

AddBits(a, b) == AddFrom(a, b, 1, 0)

\* k * m for a small k
RECURSIVE TimesSmall(_, _)
TimesSmall(k, m) ==
    IF k = 0 THEN <<>>
    ELSE AddBits(IF k % 2 = 1 THEN m ELSE <<>>, <<0>> \o TimesSmall(k \div 2, m))

RECURSIVE Trim(_)
Trim(a) == IF a = <<>> \/ a[Len(a)] = 1 THEN a ELSE Trim(SubSeq(a, 1, Len(a) - 1))

\* a * 2^t
RECURSIVE ShiftLeft(_, _)
ShiftLeft(a, t) == IF t = 0 THEN a ELSE <<0>> \o ShiftLeft(a, t - 1)

\* a / 2^t rounded to the nearest integer, ties to even
RoundedShift(a, t) ==
    IF t = 0 THEN a
    ELSE LET q == SubSeq(a, t + 1, Len(a))
             half == Bit(a, t) = 1
             sticky == \E i \in 1..(t - 1) : Bit(a, i) = 1
             odd == Bit(q, 1) = 1
         IN  IF half /\ (sticky \/ odd) THEN AddBits(q, <<1>>) ELSE q

\* The bits of a number written in hexadecimal digits
RECURSIVE HexBits(_)
HexBits(h) ==
    IF h = <<>> THEN <<>>
    ELSE LET d == h[Len(h)]
         IN  <<d % 2, (d \div 2) % 2, (d \div 4) % 2, d \div 8>>
             \o HexBits(SubSeq(h, 1, Len(h) - 1))

\* Significant bits of a double
MantissaBits == 53
\* The literal 0.02 is the double 0x1.47ae147ae147bp-6 = Fiftieth * 2^-58
Fiftieth == Trim(HexBits(<<1, 4, 7, 10, 14, 1, 4, 7, 10, 14, 1, 4, 7, 11>>))
FiftiethExp == 58
\* A double in [1, 2) is a multiple of 2^-52
OneExp == 52

\* Offsets are compared on the quarters of the unit range, which are
\* doubles exactly: q quarters is q * 2^-2
MaxQuarters == 4
QuarterExp == 2
QuarterOffsets == {q * (Unit \div MaxQuarters) : q \in (0 - MaxQuarters)..MaxQuarters}

\* The quarters farther from the edge of the unit range, in place of those
\* from its centre.
QuartersFromEdge(v) == MaxQuarters - (Abs(v) \div (Unit \div MaxQuarters))

\* Math.abs(v * 0.02) = Math.abs(v) * 0.02: the quarters |v| counts
Quarters(v) == Abs(v) \div (Unit \div MaxQuarters)

\* The double k/4 * 0.02: its significand and the power of two it counts
Product(k) ==
    LET exact == Trim(TimesSmall(k, Fiftieth))
        drop == IF Len(exact) > MantissaBits THEN Len(exact) - MantissaBits ELSE 0
    IN  [sig |-> RoundedShift(exact, drop), exp |-> FiftiethExp + QuarterExp - drop]

\* (1 + a) + b - 1 in units of 2^-52 for a = |kx/4 * 0.02|, b = |ky/4 * 0.02|:
\* both sums lie in [1, 2) and are rounded to multiples of 2^-52
ScaleUlps(kx, ky) ==
    LET a == Product(kx)
        b == Product(ky)
        first == RoundedShift(a.sig, a.exp - OneExp)
        second == RoundedShift(AddBits(ShiftLeft(first, b.exp - OneExp), b.sig),
                               b.exp - OneExp)
    IN  Trim(second)

RECURSIVE Value(_)
Value(a) == IF a = <<>> THEN 0 ELSE a[1] + 2 * Value(Tail(a))

\* A wide number as <<high part, low LimbBits bits>>
LimbBits == 24
Limbs(a) ==
    <<Value(SubSeq(a, LimbBits + 1, Len(a))),
      Value(SubSeq(a, 1, IF Len(a) < LimbBits THEN Len(a) ELSE LimbBits))>>

\* The scale factor of the offset o = <<x, y>> (hundredths), as the number
\* of units of 2^-52 it lies above 1
ScaleFactor(o) == Limbs(ScaleUlps(Quarters(o[1]), Quarters(o[2])))

\* s <= t for two scale factors
ScaleLeq(s, t) == s[1] < t[1] \/ (s[1] = t[1] /\ s[2] <= t[2])

\* The session whose state is a pair of offsets in [-1, 1] x [-1, 1] and
\* whose one step gives each its scale factor.
InitScale ==
    /\ InitSession
    /\ options.sceneId = NullStr /\ options.plyUrl # NullStr
    /\ options.placeholderImage # NullStr /\ ~options.showLoadingBar
    /\ ~host.memory /\ ~host.permissionApi
    /\ scalePair \in [a : QuarterOffsets \X QuarterOffsets,
                      b : QuarterOffsets \X QuarterOffsets,
                      scales : {<<>>}]

ComputeScale ==
    /\ scalePair.scales = <<>>
    /\ scalePair' = [scalePair EXCEPT
                        !.scales = <<ScaleFactor(scalePair.a), ScaleFactor(scalePair.b)>>]
    /\ UNCHANGED <<options, host, flagVars, rendererVars, monitorVars, surfaceVars,
                   urlVars, loads, timers, timerErrors, motionVars, countVars, poseVars,
                   lastCommand>>

NextScale == ComputeScale

SpecScale == InitScale /\ [][NextScale]_vars

\* Both offsets of the pair have their scale factor.
Computed == scalePair # NoPair /\ scalePair.scales # <<>>

\* |x| + |y| of an offset
OffsetSum(o) == Abs(o[1]) + Abs(o[2])

NextReveal ==
    \/ Load(NullStr)
    \/ \E i \in DOMAIN loads : SceneResolve(i)
    \/ \E i \in DOMAIN loads : SceneReject(i)
    \/ ForceFallback
    \/ Dispose
    \/ RevealFrame
    \/ RevealTimeout

SpecReveal ==
    /\ InitMotion
    /\ [][NextReveal]_vars
    /\ WF_vars(RevealFrame)
    /\ WF_vars(RevealTimeout)

\* The placeholder a load() call created: the first of its elements.
PlaceholderOf(l) == CHOOSE e \in l.elems : \A f \in l.elems : e <= f

\* C35: once a load() call has resolved with a placeholder present, the
\* placeholder that call created is eventually out of the container with
\* _placeholder null, whatever forceFallback(), dispose() or load() calls
\* come before the timer fires.
C35_PlaceholderEventuallyRemoved ==
    \A i \in 1..MaxLoads :
        (/\ i \in DOMAIN loads
         /\ loads[i].pc = "resolved" /\ loads[i].elems # {}
         /\ _placeholder = PlaceholderOf(loads[i]))
        ~> (/\ i \in DOMAIN loads /\ loads[i].elems # {}
            /\ PlaceholderOf(loads[i]) \notin attached /\ _placeholder = None)

\* ------------------------------------------------------------------- C36
\* C36: isLoading is true exactly while at least one load() call has
\* started and not yet settled, also when two calls overlap and when
\* dispose() is called during a load.
C36_IsLoadingTracksInFlight ==
    isLoading <=> (\E i \in DOMAIN loads : InFlight(loads[i]))

\* ------------------------------------------------------------------- C37
\* C37: at most one deviceorientation listener registered by the session
\* exists at any time, and while one is registered _deviceMotionHandler
\* refers to it, also when enableDeviceMotion() is called again while a
\* permission request is pending.
C37_SingleListenerHeld ==
    /\ Cardinality(listeners) <= 1
    /\ listeners # {} => _deviceMotionHandler \in listeners

\* ------------------------------------------------------------------- C38
\* C38: no deferred callback scheduled by the session fails: in every
\* interleaving of load(), forceFallback() and dispose() the 200 ms
\* loading-bar callback never runs while _loadingBar is null.
C38_NoDeferredCallbackFails == timerErrors = 0

\* ------------------------------------------------------------------- C39
\* C39: disposal is terminal until the next load(): from a dispose() call
\* until load() is called again all three mode flags stay false, and no
\* step (no forceFallback() call, no memory tick) invokes onFallback.
C39_DisposalIsTerminal ==
    /\ [](disposed => (~isLoaded /\ ~isLoading /\ ~isFallbackMode))
    /\ [][(disposed /\ disposed') => onFallbackCalls' = onFallbackCalls]_vars

====
